---- MODULE Spec2Model ----
(***************************************************************************)
(* Speech-session store of the verbal coach application: the REST viewset  *)
(* (speech_sessions/api.py), its serializers, the page views               *)
(* (speech_sessions/views.py) and the SpeechSession model.                 *)
(*                                                                         *)
(* Every request handler is an operator from the store and the request to  *)
(* a record [sessions, response]; the action of the handler installs both. *)
(* Times are integers counted in units of 1/TicksPerDay day.  Scores and   *)
(* rates that the code keeps as floats are kept in hundredths.             *)
(* An optional value (a nullable column, an optional dict entry) is a      *)
(* sequence of length 0 or 1.                                              *)
(* request and response are the request handled in one piece and its       *)
(* response; inflight holds, for each server worker, the request it is     *)
(* handling statement by statement next to the other worker.               *)
(***************************************************************************)
EXTENDS Integers, Sequences, FiniteSets, TLC

VARIABLES sessions, nextId, now, request, response, inflight

vars == <<sessions, nextId, now, request, response, inflight>>

----------------------------------------------------------------------------
(* Bounds of the model *)

MaxSessions == 2
MaxNow == 1
TicksPerDay == 2
MaxReanalyses == 2

----------------------------------------------------------------------------
(* Value domains of the requests *)

Users == {"A", "B"}

STATUS_CHOICES == {"pending", "analyzed", "archived"}

Ids == 1..(MaxSessions + 1)

NULL == <<>>

Some(v) == <<v>>

CannedPacing == <<"simulated">>

ReanalyzeNote(t) == <<"reanalyzed", ToString(t)>>

timedelta(days) == days * TicksPerDay

----------------------------------------------------------------------------
(* models.py: a row of SpeechSession; the primary key is the index. *)

NewSession(user, duration, audio_file, transcription, t) ==
    [user |-> user,
     date |-> t,
     duration |-> duration,
     filler_count |-> 0,
     pacing_analysis |-> <<>>,
     status |-> "pending",
     audio_file |-> audio_file,
     transcription |-> transcription,
     confidence_score |-> NULL,
     created_at |-> t,
     updated_at |-> t]

(* Model.save(): writes every column, auto_now bumps updated_at. *)
save(store, pk, row, t) ==
    [i \in DOMAIN store \cup {pk} |->
        IF i = pk THEN [row EXCEPT !.updated_at = t] ELSE store[i]]

(* QuerySet.delete() on a set of primary keys. *)
delete(store, pks) ==
    [i \in DOMAIN store \ pks |-> store[i]]

(* QuerySet.filter(id__in=...) *)
filter_id_in(store, qs, session_ids) == qs \cap session_ids

(* Mutant of get_queryset: the filter on the owner is missing. *)
get_queryset_unfiltered(store, user) == DOMAIN store

(* SpeechSession.objects.filter(user=user): the primary keys selected. *)
get_queryset(store, user) ==
    {i \in DOMAIN store : store[i].user = user}

(* IsOwnerPermission.has_object_permission *)
has_object_permission(user, obj) == obj.user = user

(* A response, with the caller and the address of the request it answers:  *)
(* the primary key of a detail route, the session_ids of a bulk request.   *)
Resp(op, user, target, code, body) ==
    [op |-> op, user |-> user, target |-> target, code |-> code,
     body |-> body]

Out(store, resp) == [sessions |-> store, response |-> resp]

(* GenericAPIView.get_object: 404 when the key is not in the queryset,    *)
(* 403 when the object permission refuses, else the key.                   *)
get_object(store, user, pk) ==
    IF pk \notin get_queryset(store, user) THEN 404
    ELSE IF ~has_object_permission(user, store[pk]) THEN 403
    ELSE 200

----------------------------------------------------------------------------
(* Request payloads: the keys present and a value for each key.  The value *)
(* of a key that is not present is the placeholder of Blank.               *)

AllKeys == {"user", "duration", "filler_count", "pacing_analysis",
            "status", "transcription", "confidence_score"}

Blank ==
    [user |-> "A", duration |-> 60, filler_count |-> 0,
     pacing_analysis |-> <<>>, status |-> "pending",
     transcription |-> <<>>, confidence_score |-> NULL]

KeySets ==
    {{}, {"status"}, {"filler_count"}, {"confidence_score"},
     {"pacing_analysis"}, {"duration"}, {"filler_count", "user"}}

PayloadChoices ==
    [user |-> {"B"},
     duration |-> {0, 120},
     filler_count |-> {-1, 3},
     pacing_analysis |-> {<<"fast">>},
     status |-> {"pending", "analyzed", "archived", "bogus"},
     transcription |-> {<<>>},
     confidence_score |-> {Some(150)}]

PayloadsWith(k) ==
    {[keys |-> k, data |-> v] : v \in
        {w \in [user : PayloadChoices.user \cup {Blank.user},
                duration : PayloadChoices.duration \cup {Blank.duration},
                filler_count :
                    PayloadChoices.filler_count \cup {Blank.filler_count},
                pacing_analysis :
                    PayloadChoices.pacing_analysis \cup {Blank.pacing_analysis},
                status : PayloadChoices.status \cup {Blank.status},
                transcription :
                    PayloadChoices.transcription \cup {Blank.transcription},
                confidence_score :
                    PayloadChoices.confidence_score
                        \cup {Blank.confidence_score}] :
            \A f \in AllKeys :
                IF f \in k THEN w[f] \in PayloadChoices[f]
                ELSE w[f] = Blank[f]}}

Payloads == UNION {PayloadsWith(k) : k \in KeySets}

----------------------------------------------------------------------------
(* serializers.py *)

(* SpeechSessionSerializer.validate_duration *)
validate_duration(value) == value > 0

(* SpeechSessionSerializer.validate_filler_count *)
validate_filler_count(value) == value >= 0

(* SpeechSessionSerializer.validate_confidence_score; scores in hundredths *)
validate_confidence_score(value) ==
    ~(value # NULL /\ (value[1] < 0 \/ value[1] > 100))

(* The ChoiceField the ModelSerializer builds for status (models.py choices) *)
validate_status(value) == value \in STATUS_CHOICES

(* SpeechSessionSerializer.Meta *)
read_only_fields == {"id", "user", "date", "created_at", "updated_at"}

(* Mutant of writable_fields: the owner is writable. *)
writable_fields_with_owner ==
    {"duration", "filler_count", "pacing_analysis", "status",
     "transcription", "confidence_score", "user"}

writable_fields ==
    {"duration", "filler_count", "pacing_analysis", "status",
     "transcription", "confidence_score"}

(* SpeechSessionSerializer.is_valid: PUT (partial = FALSE) needs duration, *)
(* the only writable column without a default.                             *)
is_valid(p, partial) ==
    /\ partial \/ "duration" \in p.keys
    /\ "duration" \in p.keys => validate_duration(p.data.duration)
    /\ "filler_count" \in p.keys => validate_filler_count(p.data.filler_count)
    /\ "confidence_score" \in p.keys =>
            validate_confidence_score(p.data.confidence_score)
    /\ "status" \in p.keys => validate_status(p.data.status)

(* ModelSerializer.update: the validated writable keys are set on the row. *)
apply_fields(row, p, fields) ==
    [f \in DOMAIN row |->
        IF f \in p.keys \cap fields THEN p.data[f] ELSE row[f]]

(* SpeechSessionSerializer.to_representation *)
serialize(store, pk) ==
    [id |-> pk, row |-> store[pk]]

(* SpeechSessionListSerializer.to_representation *)
serialize_list(store, pk) ==
    [id |-> pk,
     user_email |-> store[pk].user,
     date |-> store[pk].date,
     duration |-> store[pk].duration,
     filler_count |-> store[pk].filler_count,
     status |-> store[pk].status,
     confidence_score |-> store[pk].confidence_score]

(* Mutant of create: the simulated analysis is left out. *)
create_without_analysis(store, pk, user, duration, audio_file, transcription, t) ==
    save(store, pk, NewSession(user, duration, audio_file, transcription, t), t)

(* SpeechSessionCreateSerializer.create, called with user = request.user   *)
(* by perform_create: the row is inserted, and saved again with the        *)
(* simulated analysis when it has an audio file.                           *)
create(store, pk, user, duration, audio_file, transcription, t) ==
    LET row == NewSession(user, duration, audio_file, transcription, t)
        inserted == save(store, pk, row, t)
    IN  IF row.audio_file
        THEN save(inserted, pk,
                  [row EXCEPT !.filler_count = 5,
                              !.pacing_analysis = CannedPacing,
                              !.confidence_score = Some(85),
                              !.status = "analyzed"], t)
        ELSE inserted

----------------------------------------------------------------------------
(* api.py: SpeechSessionViewSet.  The caller of every handler is an        *)
(* authenticated user who passes IsOwnerPermission.has_permission.         *)

(* ListModelMixin.list over get_queryset *)
list(store, user) ==
    Out(store, Resp("list", user, 0, 200,
        {serialize_list(store, pk) : pk \in get_queryset(store, user)}))

(* CreateModelMixin.create with SpeechSessionCreateSerializer and          *)
(* perform_create                                                          *)
perform_create(store, pk, user, duration, audio_file, transcription, t) ==
    IF ~validate_duration(duration)
    THEN Out(store, Resp("create", user, pk, 400, "duration"))
    ELSE Out(create(store, pk, user, duration, audio_file, transcription, t),
             Resp("create", user, pk, 201,
                  [duration |-> duration, audio_file |-> audio_file,
                   transcription |-> transcription]))

(* RetrieveModelMixin.retrieve *)
retrieve(store, user, pk) ==
    LET found == get_object(store, user, pk)
    IN  IF found # 200
        THEN Out(store, Resp("retrieve", user, pk, found, "error"))
        ELSE Out(store, Resp("retrieve", user, pk, 200, serialize(store, pk)))

(* UpdateModelMixin.update (PUT) and partial_update (PATCH) *)
update(store, user, pk, p, partial, t) ==
    LET found == get_object(store, user, pk)
    IN  IF found # 200
        THEN Out(store, Resp("update", user, pk, found, "error"))
        ELSE IF ~is_valid(p, partial)
        THEN Out(store, Resp("update", user, pk, 400, "invalid"))
        ELSE LET saved == save(store, pk,
                               apply_fields(store[pk], p, writable_fields), t)
             IN  Out(saved, Resp("update", user, pk, 200, serialize(saved, pk)))

(* DestroyModelMixin.destroy *)
destroy(store, user, pk) ==
    LET found == get_object(store, user, pk)
    IN  IF found # 200
        THEN Out(store, Resp("destroy", user, pk, found, "error"))
        ELSE Out(delete(store, {pk}), Resp("destroy", user, pk, 204, "none"))

(* Mutant of queryset_update: a status is written without the other keys. *)
queryset_update_status_alone(store, pks, p) ==
    [i \in DOMAIN store |->
        IF i \in pks
        THEN [f \in DOMAIN store[i] |->
                IF f \in p.keys /\ ("status" \in p.keys => f = "status")
                THEN p.data[f] ELSE store[i][f]]
        ELSE store[i]]

(* Mutant of queryset_update: an archived row is left as it is. *)
queryset_update_keeping_archived(store, pks, p) ==
    [i \in DOMAIN store |->
        IF i \in pks /\ store[i].status # "archived"
        THEN [f \in DOMAIN store[i] |->
                IF f \in p.keys THEN p.data[f] ELSE store[i][f]]
        ELSE store[i]]

(* QuerySet.update with the keys of updates: one UPDATE statement over the  *)
(* selected rows; no validator runs and auto_now is not applied.           *)
queryset_update(store, pks, p) ==
    [i \in DOMAIN store |->
        IF i \in pks THEN apply_fields(store[i], p, p.keys) ELSE store[i]]

(* Mutant of allowed_fields: the owner column is let through. *)
LaxAllowedFields ==
    {"status", "pacing_analysis", "filler_count", "confidence_score", "user"}

allowed_fields ==
    {"status", "pacing_analysis", "filler_count", "confidence_score"}

(* Mutant of bulk_update: the keys are validated before the lookup. *)
bulk_update_validating_first(store, user, session_ids, updates) ==
    LET selected == {i \in DOMAIN store :
                        i \in session_ids /\ store[i].user = user}
    IN  IF session_ids = {} \/ updates.keys = {}
        THEN [sessions |-> store,
              response |-> Resp("bulk_update", user, session_ids, 400,
                                "Both session_ids and updates are required")]
        ELSE IF updates.keys \ allowed_fields # {}
        THEN [sessions |-> store,
              response |-> Resp("bulk_update", user, session_ids, 400,
                                "Invalid fields for bulk update")]
        ELSE IF selected = {}
        THEN [sessions |-> store,
              response |-> Resp("bulk_update", user, session_ids, 404,
                                "No valid sessions found")]
        ELSE [sessions |->
                [i \in DOMAIN store |->
                    IF i \in selected
                    THEN [f \in DOMAIN store[i] |->
                            IF f \in updates.keys THEN updates.data[f]
                            ELSE store[i][f]]
                    ELSE store[i]],
              response |-> Resp("bulk_update", user, session_ids, 200,
                                [success |-> TRUE,
                                 updated_count |-> Cardinality(selected)])]

(* SpeechSessionViewSet.bulk_update; an absent session_ids or updates is   *)
(* the empty default of request.data.get.                                  *)
bulk_update(store, user, session_ids, updates) ==
    LET selected == filter_id_in(store, get_queryset(store, user), session_ids)
        invalid_fields == updates.keys \ allowed_fields
    IN  IF session_ids = {} \/ updates.keys = {}
        THEN Out(store, Resp("bulk_update", user, session_ids, 400,
                 "Both session_ids and updates are required"))
        ELSE IF selected = {}
        THEN Out(store, Resp("bulk_update", user, session_ids, 404,
                 "No valid sessions found"))
        ELSE IF invalid_fields # {}
        THEN Out(store, Resp("bulk_update", user, session_ids, 400,
                 "Invalid fields for bulk update"))
        ELSE Out(queryset_update(store, selected, updates),
                 Resp("bulk_update", user, session_ids, 200,
                      [success |-> TRUE,
                       updated_count |-> Cardinality(selected)]))

(* The offset hash(str(session.id)) % 5 selects; str hashes are salted per *)
(* interpreter process, so the index is an input of the handler.           *)
Offsets == <<-2, -1, 0, 1, 2>>

Max(a, b) == IF a >= b THEN a ELSE b

Min(a, b) == IF a <= b THEN a ELSE b

(* (session.confidence_score or 0.8): None and 0.0 are both falsy. *)
score_or_default(value) ==
    IF value = NULL \/ value = Some(0) THEN 80 ELSE value[1]

(* Mutant of reanalyze: the audio file is not asked for. *)
reanalyze_without_audio_check(store, user, pk, h, t) ==
    LET found == get_object(store, user, pk)
    IN  IF found # 200
        THEN Out(store, Resp("reanalyze", user, pk, found, "error"))
        ELSE LET session == store[pk]
                 saved == save(store, pk,
                    [session EXCEPT
                        !.filler_count =
                            Max(0, session.filler_count + Offsets[h + 1]),
                        !.pacing_analysis =
                            ReanalyzeNote(t) \o session.pacing_analysis,
                        !.confidence_score = Some(Min(100, Max(0,
                            score_or_default(session.confidence_score) + 5))),
                        !.status = "analyzed"], t)
             IN  Out(saved, Resp("reanalyze", user, pk, 200, serialize(saved, pk)))

(* SpeechSessionViewSet.reanalyze *)
reanalyze(store, user, pk, h, t) ==
    LET found == get_object(store, user, pk)
    IN  IF found # 200
        THEN Out(store, Resp("reanalyze", user, pk, found, "error"))
        ELSE IF ~store[pk].audio_file
        THEN Out(store, Resp("reanalyze", user, pk, 400,
                 "No audio file available for analysis"))
        ELSE LET session == store[pk]
                 saved == save(store, pk,
                    [session EXCEPT
                        !.filler_count =
                            Max(0, session.filler_count + Offsets[h + 1]),
                        !.pacing_analysis =
                            ReanalyzeNote(t) \o session.pacing_analysis,
                        !.confidence_score = Some(Min(100, Max(0,
                            score_or_default(session.confidence_score) + 5))),
                        !.status = "analyzed"], t)
             IN  Out(saved, Resp("reanalyze", user, pk, 200, serialize(saved, pk)))

----------------------------------------------------------------------------
(* Aggregates of django.db.models over a set of primary keys *)

RECURSIVE Sum(_, _, _)
Sum(store, pks, field) ==
    IF pks = {} THEN 0
    ELSE LET pk == CHOOSE i \in pks : TRUE
         IN  store[pk][field] + Sum(store, pks \ {pk}, field)

(* round(num / den, 0) of Python for den > 0: to nearest, ties to even *)
RoundHalfEven(num, den) ==
    LET q == num \div den
        r == num - q * den
    IN  IF 2 * r < den THEN q
        ELSE IF 2 * r > den THEN q + 1
        ELSE IF q % 2 = 0 THEN q ELSE q + 1

(* round(num / den, 2), in hundredths *)
round2(num, den) == RoundHalfEven(100 * num, den)

(* Mutant of average_filler_rate: the quotient is cut, not rounded. *)
average_filler_rate_truncated(store, analyzed) ==
    LET total_fillers == Sum(store, analyzed, "filler_count")
        total_analyzed_duration == Sum(store, analyzed, "duration")
    IN  IF analyzed # {} /\ total_analyzed_duration > 0
        THEN (6000 * total_fillers) \div total_analyzed_duration
        ELSE 0

(* average_filler_rate of analytics, in hundredths per minute *)
average_filler_rate(store, analyzed) ==
    LET total_fillers == Sum(store, analyzed, "filler_count")
        total_analyzed_duration == Sum(store, analyzed, "duration")
    IN  IF analyzed # {} /\ total_analyzed_duration # 0
                         /\ total_analyzed_duration > 0
        THEN round2(total_fillers * 60, total_analyzed_duration)
        ELSE 0

(* Mutant of sessions_by_status: every status of the model has an entry. *)
sessions_by_status_zero_filled(store, pks) ==
    [s \in STATUS_CHOICES |->
        Cardinality({i \in pks : store[i].status = s})]

(* sessions.values('status').annotate(count=Count('id')).order_by('status') *)
(* as a dict: one group for each status value present                      *)
sessions_by_status(store, pks) ==
    [s \in {store[i].status : i \in pks} |->
        Cardinality({i \in pks : store[i].status = s})]

(* Mutant of improvement_metrics: the previous window ends a tick late.    *)
improvement_metrics_late_window(store, pks, t) ==
    LET thirty_days_ago == t - timedelta(30)
        sixty_days_ago == t - timedelta(60)
        recent_sessions == {i \in pks : store[i].date > thirty_days_ago}
        previous_sessions == {i \in pks : /\ store[i].date >= sixty_days_ago
                                          /\ store[i].date <= thirty_days_ago}
        recent_sum == Sum(store, recent_sessions, "filler_count")
        recent_n == Cardinality(recent_sessions)
        previous_sum == Sum(store, previous_sessions, "filler_count")
        previous_n == Cardinality(previous_sessions)
    IN  IF Cardinality(pks) > 1
           /\ recent_sessions # {} /\ previous_sessions # {}
           /\ previous_sum > 0
        THEN Some(round2(100 * (previous_sum * recent_n - recent_sum * previous_n),
                         previous_sum * recent_n))
        ELSE NULL

(* improvement_metrics of analytics: the dict entry, when there is one.    *)
(* Both calls of timezone.now() are taken at the same instant t.           *)
improvement_metrics(store, pks, t) ==
    LET thirty_days_ago == t - timedelta(30)
        sixty_days_ago == t - timedelta(60)
        recent_sessions == {i \in pks : store[i].date >= thirty_days_ago}
        previous_sessions == {i \in pks : /\ store[i].date >= sixty_days_ago
                                          /\ store[i].date < thirty_days_ago}
        recent_sum == Sum(store, recent_sessions, "filler_count")
        recent_n == Cardinality(recent_sessions)
        previous_sum == Sum(store, previous_sessions, "filler_count")
        previous_n == Cardinality(previous_sessions)
    IN  IF Cardinality(pks) > 1
           /\ recent_sessions # {} /\ previous_sessions # {}
           /\ previous_sum > 0
        THEN Some(round2(100 * (previous_sum * recent_n - recent_sum * previous_n),
                         previous_sum * recent_n))
        ELSE NULL

(* Mutant of analytics: the result for no session carries the metrics dict. *)
analytics_with_metrics_for_none(store, user, t) ==
    LET pks == get_queryset(store, user)
        total_sessions == Cardinality(pks)
        analyzed_sessions == {i \in pks : store[i].status = "analyzed"}
    IN  Out(store, Resp("analytics", user, 0, 200,
            [total_sessions |-> total_sessions,
             total_duration |-> Sum(store, pks, "duration"),
             average_duration |->
                IF total_sessions = 0 THEN 0
                ELSE round2(Sum(store, pks, "duration"), total_sessions),
             total_filler_words |->
                Sum(store, analyzed_sessions, "filler_count"),
             average_filler_rate |->
                average_filler_rate(store, analyzed_sessions),
             sessions_by_status |-> sessions_by_status(store, pks),
             recent_sessions_count |-> Cardinality(
                {i \in pks : store[i].date >= t - timedelta(30)}),
             improvement_metrics |-> improvement_metrics(store, pks, t)]))

(* SpeechSessionViewSet.analytics *)
analytics(store, user, t) ==
    LET pks == get_queryset(store, user)
        total_sessions == Cardinality(pks)
        analyzed_sessions == {i \in pks : store[i].status = "analyzed"}
    IN  IF total_sessions = 0
        THEN Out(store, Resp("analytics", user, 0, 200,
                [total_sessions |-> 0,
                 total_duration |-> 0,
                 average_duration |-> 0,
                 total_filler_words |-> 0,
                 average_filler_rate |-> 0,
                 sessions_by_status |-> <<>>,
                 recent_sessions_count |-> 0]))
        ELSE Out(store, Resp("analytics", user, 0, 200,
                [total_sessions |-> total_sessions,
                 total_duration |-> Sum(store, pks, "duration"),
                 average_duration |->
                    round2(Sum(store, pks, "duration"), total_sessions),
                 total_filler_words |->
                    Sum(store, analyzed_sessions, "filler_count"),
                 average_filler_rate |->
                    average_filler_rate(store, analyzed_sessions),
                 sessions_by_status |-> sessions_by_status(store, pks),
                 recent_sessions_count |-> Cardinality(
                    {i \in pks : store[i].date >= t - timedelta(30)}),
                 improvement_metrics |-> improvement_metrics(store, pks, t)]))

----------------------------------------------------------------------------
(* views.py: the page views.  The forms of speech_sessions/forms.py accept *)
(* what the serializers accept.                                            *)

(* SpeechSessionCreateForm.is_valid *)
SpeechSessionCreateForm_is_valid(duration) == validate_duration(duration)

(* SpeechSessionUpdateForm.is_valid *)
SpeechSessionUpdateForm_is_valid(p) == is_valid(p, TRUE)

(* Mutant of get_object_or_404: the lookup is by primary key alone. *)
get_object_or_404_by_pk(store, user, pk) ==
    pk \in DOMAIN store

(* get_object_or_404(SpeechSession, pk=pk, user=request.user) *)
get_object_or_404(store, user, pk) ==
    pk \in DOMAIN store /\ store[pk].user = user

Lower(word) ==
    IF word = "FAST" THEN "fast"
    ELSE IF word = "SIMULATED" THEN "simulated"
    ELSE word

(* icontains over texts kept as sequences of words *)
icontains(text, term) ==
    \E k \in 0..(Len(text) - Len(term)) :
        \A j \in 1..Len(term) : Lower(text[k + j]) = Lower(term[j])

(* date__date: the day of a timestamp *)
date_of(t) == t \div TicksPerDay

(* SpeechSessionFilterForm.is_valid: the verdict of the form on the query   *)
(* string is part of the request.                                          *)
SpeechSessionFilterForm_is_valid(f) == f.valid

(* order_by('-date'): the order of sessions of equal date is the           *)
(* database's, by primary key upwards or downwards here.                   *)
comes_before(store, i, j, ties) ==
    \/ store[i].date > store[j].date
    \/ /\ store[i].date = store[j].date
       /\ IF ties = "pk" THEN i <= j ELSE i >= j

RECURSIVE order_by_date_desc(_, _, _)
order_by_date_desc(store, pks, ties) ==
    IF pks = {} THEN <<>>
    ELSE LET first == CHOOSE i \in pks :
                        \A j \in pks : comes_before(store, i, j, ties)
         IN  <<first>> \o order_by_date_desc(store, pks \ {first}, ties)

(* Paginator(sessions, 10) *)
per_page == 10

(* Paginator.num_pages, with allow_empty_first_page *)
num_pages(count) ==
    IF count = 0 THEN 1 ELSE (count + per_page - 1) \div per_page

(* Mutant of get_page: a page holds one session less. *)
get_page_short(object_list, page) ==
    LET last == num_pages(Len(object_list))
        number == IF page = NULL THEN 1
                  ELSE IF page[1] < 1 \/ page[1] > last THEN last
                  ELSE page[1]
        bottom == (number - 1) * per_page
        top == Min(bottom + per_page - 1, Len(object_list))
    IN  SubSeq(object_list, bottom + 1, top)

(* Paginator.get_page: page 1 when the number is absent, the last page     *)
(* when it is out of range.                                                *)
get_page(object_list, page) ==
    LET last == num_pages(Len(object_list))
        number == IF page = NULL THEN 1
                  ELSE IF page[1] < 1 \/ page[1] > last THEN last
                  ELSE page[1]
        bottom == (number - 1) * per_page
        top == Min(bottom + per_page, Len(object_list))
    IN  SubSeq(object_list, bottom + 1, top)

(* session_list_view: the filters are applied when the filter form is      *)
(* valid; an empty status or search and an unset date are absent inputs.   *)
session_list_view(store, user, f) ==
    LET owned == get_queryset(store, user)
        by_status == IF f.status # ""
                     THEN {i \in owned : store[i].status = f.status}
                     ELSE owned
        by_from == IF f.date_from # NULL
                   THEN {i \in by_status :
                            date_of(store[i].date) >= f.date_from[1]}
                   ELSE by_status
        by_to == IF f.date_to # NULL
                 THEN {i \in by_from : date_of(store[i].date) <= f.date_to[1]}
                 ELSE by_from
        by_search == IF f.search # <<>>
                     THEN {i \in by_to :
                            \/ icontains(store[i].transcription, f.search)
                            \/ icontains(store[i].pacing_analysis, f.search)}
                     ELSE by_to
        filtered == IF SpeechSessionFilterForm_is_valid(f)
                    THEN by_search ELSE owned
        ordered == order_by_date_desc(store, filtered, f.ties)
    IN  Out(store, Resp("session_list", user, 0, 200,
            [page_obj |-> get_page(ordered, f.page),
             total_sessions |-> Cardinality(owned),
             pending_sessions |->
                Cardinality({i \in owned : store[i].status = "pending"}),
             analyzed_sessions |->
                Cardinality({i \in owned : store[i].status = "analyzed"})]))

(* session_create_view, POST: one save of the row with the simulated       *)
(* analysis already set when there is an audio file.                       *)
session_create_view(store, pk, user, duration, audio_file, transcription, t) ==
    IF ~SpeechSessionCreateForm_is_valid(duration)
    THEN Out(store, Resp("session_create", user, pk, 200, "form"))
    ELSE LET row == NewSession(user, duration, audio_file, transcription, t)
             analysed == IF row.audio_file
                         THEN [row EXCEPT !.filler_count = 5,
                                          !.pacing_analysis = CannedPacing,
                                          !.confidence_score = Some(85),
                                          !.status = "analyzed"]
                         ELSE row
         IN  Out(save(store, pk, analysed, t),
                 Resp("session_create", user, pk, 302, pk))

(* session_detail_view *)
session_detail_view(store, user, pk) ==
    IF ~get_object_or_404(store, user, pk)
    THEN Out(store, Resp("session_detail", user, pk, 404, "error"))
    ELSE Out(store, Resp("session_detail", user, pk, 200, serialize(store, pk)))

(* session_update_view: GET shows the form, POST saves a valid form *)
session_update_view(store, user, pk, method, p, t) ==
    IF ~get_object_or_404(store, user, pk)
    THEN Out(store, Resp("session_update", user, pk, 404, "error"))
    ELSE IF method = "POST" /\ SpeechSessionUpdateForm_is_valid(p)
    THEN Out(save(store, pk, apply_fields(store[pk], p, writable_fields), t),
             Resp("session_update", user, pk, 302, pk))
    ELSE Out(store, Resp("session_update", user, pk, 200, serialize(store, pk)))

(* session_delete_view: GET asks for confirmation, POST deletes *)
session_delete_view(store, user, pk, method) ==
    IF ~get_object_or_404(store, user, pk)
    THEN Out(store, Resp("session_delete", user, pk, 404, "error"))
    ELSE IF method = "POST"
    THEN Out(delete(store, {pk}), Resp("session_delete", user, pk, 302, pk))
    ELSE Out(store, Resp("session_delete", user, pk, 200, serialize(store, pk)))

(* Mutant of session_bulk_action_view: the action name is checked before   *)
(* the lookup.                                                             *)
session_bulk_action_view_checking_first(store, user, body) ==
    IF body = NULL
    THEN Out(store, Resp("bulk_action", user, {}, 400, "Invalid JSON data"))
    ELSE
    LET action == body[1].action
        session_ids == body[1].session_ids
        selected == {i \in DOMAIN store :
                        i \in session_ids /\ store[i].user = user}
        count == Cardinality(selected)
    IN  IF action = "" \/ session_ids = {}
        THEN Out(store, Resp("bulk_action", user, session_ids, 400,
                 "Missing action or session IDs"))
        ELSE IF action \notin {"delete", "archive", "mark_analyzed"}
        THEN Out(store, Resp("bulk_action", user, session_ids, 400,
                 "Invalid action"))
        ELSE IF count = 0
        THEN Out(store, Resp("bulk_action", user, session_ids, 404,
                 "No valid sessions found"))
        ELSE IF action = "delete"
        THEN Out(delete(store, selected),
                 Resp("bulk_action", user, session_ids, 200, count))
        ELSE Out([i \in DOMAIN store |->
                    IF i \in selected
                    THEN [store[i] EXCEPT !.status =
                            IF action = "archive" THEN "archived"
                            ELSE "analyzed"]
                    ELSE store[i]],
                 Resp("bulk_action", user, session_ids, 200, count))

(* session_bulk_action_view: body is the parsed JSON object, or NULL when  *)
(* json.loads fails; an absent action is the empty string.                 *)
session_bulk_action_view(store, user, body) ==
    IF body = NULL
    THEN Out(store, Resp("bulk_action", user, {}, 400, "Invalid JSON data"))
    ELSE
    LET action == body[1].action
        session_ids == body[1].session_ids
        selected == {i \in DOMAIN store :
                        i \in session_ids /\ store[i].user = user}
        count == Cardinality(selected)
    IN  IF action = "" \/ session_ids = {}
        THEN Out(store, Resp("bulk_action", user, session_ids, 400,
                 "Missing action or session IDs"))
        ELSE IF count = 0
        THEN Out(store, Resp("bulk_action", user, session_ids, 404,
                 "No valid sessions found"))
        ELSE IF action = "delete"
        THEN Out(delete(store, selected),
                 Resp("bulk_action", user, session_ids, 200, count))
        ELSE IF action = "archive"
        THEN Out([i \in DOMAIN store |->
                    IF i \in selected
                    THEN [store[i] EXCEPT !.status = "archived"]
                    ELSE store[i]],
                 Resp("bulk_action", user, session_ids, 200, count))
        ELSE IF action = "mark_analyzed"
        THEN Out([i \in DOMAIN store |->
                    IF i \in selected
                    THEN [store[i] EXCEPT !.status = "analyzed"]
                    ELSE store[i]],
                 Resp("bulk_action", user, session_ids, 200, count))
        ELSE Out(store, Resp("bulk_action", user, session_ids, 400, "Invalid action"))

(* session_analytics_view: the averages are quotients, kept as pairs *)
session_analytics_view(store, user, t) ==
    LET pks == get_queryset(store, user)
        total_sessions == Cardinality(pks)
        total_duration == Sum(store, pks, "duration")
        analyzed_sessions == {i \in pks : store[i].status = "analyzed"}
        total_fillers == Sum(store, analyzed_sessions, "filler_count")
    IN  Out(store, Resp("session_analytics", user, 0, 200,
            [total_sessions |-> total_sessions,
             total_duration |-> total_duration,
             avg_duration |-> IF total_sessions > 0
                              THEN <<total_duration, total_sessions>>
                              ELSE <<0, 1>>,
             total_fillers |-> total_fillers,
             avg_fillers |-> IF Cardinality(analyzed_sessions) > 0
                             THEN <<total_fillers,
                                    Cardinality(analyzed_sessions)>>
                             ELSE <<0, 1>>,
             recent_sessions_count |-> Cardinality(
                {i \in pks : store[i].date >= t - timedelta(30)}),
             analyzed_sessions_count |-> Cardinality(analyzed_sessions),
             pending_sessions_count |->
                Cardinality({i \in pks : store[i].status = "pending"}),
             archived_sessions_count |->
                Cardinality({i \in pks : store[i].status = "archived"})]))

----------------------------------------------------------------------------
(* Inputs of the requests *)

Durations == {0, 60}

Transcriptions == {<<"FAST">>}

IdSets == SUBSET Ids

Methods == {"GET", "POST"}

Actions == {"", "delete", "archive", "mark_analyzed", "purge"}

BulkBodies ==
    {NULL} \cup {Some([action |-> a, session_ids |-> ids]) :
                    a \in Actions, ids \in IdSets}

(* The query string of the page list: the filters, the verdict of the     *)
(* filter form, the page number, and the order the database gives to       *)
(* sessions of equal date.                                                 *)
Filters ==
    {f \in [status : {"", "analyzed"},
            date_from : {NULL, Some(1)},
            date_to : {NULL, Some(0)},
            search : {<<>>, <<"fast">>},
            valid : BOOLEAN,
            page : {NULL, Some(2)},
            ties : {"pk", "-pk"}] :
        /\ ~f.valid => f.date_to = NULL /\ f.search = <<>> /\ f.page = NULL
        /\ f.page # NULL => f.date_from = NULL /\ f.date_to = NULL}

HashIndexes == 0..4

----------------------------------------------------------------------------
(* The state machine.  A behaviour starts from a store that successful     *)
(* creations have filled, lets the clock advance, and handles one request: *)
(* request is that request and response its response.  There is one action *)
(* per request handler.                                                    *)

(* The stores n creations at time t lead to, from the empty store. *)
RECURSIVE CreatedStores(_, _)
CreatedStores(n, t) ==
    IF n = 0 THEN {<<>>}
    ELSE LET before == CreatedStores(n - 1, t)
         IN  before \cup
             {create(store, n, user, duration, audio_file, transcription, t) :
                store \in {b \in before : Cardinality(DOMAIN b) = n - 1},
                user \in Users,
                duration \in {d \in Durations : validate_duration(d)},
                audio_file \in BOOLEAN,
                transcription \in Transcriptions}

NoRequest == [op |-> "none", user |-> "none"]

(* The server workers that handle requests side by side. *)
Workers == {1, 2}

Waiting ==
    [pc |-> "idle", op |-> "none", user |-> "none", session_ids |-> {},
     updates |-> [keys |-> {}, data |-> Blank], written |-> {},
     response |-> Resp("none", "none", 0, 0, "none")]

Idle == [w \in Workers |-> Waiting]

Init ==
    /\ now = 0
    /\ sessions \in CreatedStores(MaxSessions, 0)
    /\ nextId = Cardinality(DOMAIN sessions) + 1
    /\ request = NoRequest
    /\ response = Resp("none", "none", 0, 0, "none")
    /\ inflight = Idle

Handle(req, out) ==
    /\ request = NoRequest
    /\ request' = req
    /\ sessions' = out.sessions
    /\ response' = out.response
    /\ UNCHANGED inflight

Tick ==
    /\ now < MaxNow
    /\ now' = now + 1
    /\ UNCHANGED <<sessions, nextId, request, response, inflight>>

List ==
    \E user \in Users :
        /\ Handle([op |-> "list", user |-> user], list(sessions, user))
        /\ UNCHANGED <<nextId, now>>

Create ==
    \E user \in Users, duration \in Durations, audio_file \in BOOLEAN,
       transcription \in Transcriptions :
        /\ Handle([op |-> "create", user |-> user, duration |-> duration,
                   audio_file |-> audio_file, transcription |-> transcription],
                  perform_create(sessions, nextId, user, duration,
                                 audio_file, transcription, now))
        /\ nextId' = IF response'.code = 201 THEN nextId + 1 ELSE nextId
        /\ UNCHANGED now

Retrieve ==
    \E user \in Users, pk \in Ids :
        /\ Handle([op |-> "retrieve", user |-> user, pk |-> pk],
                  retrieve(sessions, user, pk))
        /\ UNCHANGED <<nextId, now>>

Update ==
    \E user \in Users, pk \in Ids, p \in Payloads, partial \in BOOLEAN :
        /\ Handle([op |-> "update", user |-> user, pk |-> pk, data |-> p,
                   partial |-> partial],
                  update(sessions, user, pk, p, partial, now))
        /\ UNCHANGED <<nextId, now>>

Destroy ==
    \E user \in Users, pk \in Ids :
        /\ Handle([op |-> "destroy", user |-> user, pk |-> pk],
                  destroy(sessions, user, pk))
        /\ UNCHANGED <<nextId, now>>

Analytics ==
    \E user \in Users :
        /\ Handle([op |-> "analytics", user |-> user],
                  analytics(sessions, user, now))
        /\ UNCHANGED <<nextId, now>>

BulkUpdate ==
    \E user \in Users, session_ids \in IdSets, updates \in Payloads :
        /\ Handle([op |-> "bulk_update", user |-> user,
                   session_ids |-> session_ids, updates |-> updates],
                  bulk_update(sessions, user, session_ids, updates))
        /\ UNCHANGED <<nextId, now>>

Reanalyze ==
    \E user \in Users, pk \in Ids, h \in HashIndexes :
        /\ Handle([op |-> "reanalyze", user |-> user, pk |-> pk, h |-> h],
                  reanalyze(sessions, user, pk, h, now))
        /\ UNCHANGED <<nextId, now>>

PageList ==
    \E user \in Users, f \in Filters :
        /\ Handle([op |-> "session_list", user |-> user, filter |-> f],
                  session_list_view(sessions, user, f))
        /\ UNCHANGED <<nextId, now>>

PageCreate ==
    \E user \in Users, duration \in Durations, audio_file \in BOOLEAN,
       transcription \in Transcriptions :
        /\ Handle([op |-> "session_create", user |-> user,
                   duration |-> duration, audio_file |-> audio_file,
                   transcription |-> transcription],
                  session_create_view(sessions, nextId, user, duration,
                                      audio_file, transcription, now))
        /\ nextId' = IF response'.code = 302 THEN nextId + 1 ELSE nextId
        /\ UNCHANGED now

PageDetail ==
    \E user \in Users, pk \in Ids :
        /\ Handle([op |-> "session_detail", user |-> user, pk |-> pk],
                  session_detail_view(sessions, user, pk))
        /\ UNCHANGED <<nextId, now>>

PageUpdate ==
    \E user \in Users, pk \in Ids, method \in Methods, p \in Payloads :
        /\ method = "GET" => p.keys = {}
        /\ Handle([op |-> "session_update", user |-> user, pk |-> pk,
                   method |-> method, data |-> p],
                  session_update_view(sessions, user, pk, method, p, now))
        /\ UNCHANGED <<nextId, now>>

PageDelete ==
    \E user \in Users, pk \in Ids, method \in Methods :
        /\ Handle([op |-> "session_delete", user |-> user, pk |-> pk,
                   method |-> method],
                  session_delete_view(sessions, user, pk, method))
        /\ UNCHANGED <<nextId, now>>

PageBulkAction ==
    \E user \in Users, body \in BulkBodies :
        /\ Handle([op |-> "bulk_action", user |-> user, body |-> body],
                  session_bulk_action_view(sessions, user, body))
        /\ UNCHANGED <<nextId, now>>

PageAnalytics ==
    \E user \in Users :
        /\ Handle([op |-> "session_analytics", user |-> user],
                  session_analytics_view(sessions, user, now))
        /\ UNCHANGED <<nextId, now>>

Next ==
    \/ Tick
    \/ List \/ Create \/ Retrieve \/ Update \/ Destroy
    \/ Analytics \/ BulkUpdate \/ Reanalyze
    \/ PageList \/ PageCreate \/ PageDetail \/ PageUpdate \/ PageDelete
    \/ PageBulkAction \/ PageAnalytics

Spec == Init /\ [][Next]_vars

----------------------------------------------------------------------------
(* What the claims speak of: the step that handles a request, the sessions *)
(* a user owns before it, and the sessions a response shows.               *)

Handled == request = NoRequest /\ request' # NoRequest

Owned(user) == {i \in DOMAIN sessions : sessions[i].user = user}

OwnStore(store, user) ==
    [i \in {j \in DOMAIN store : store[j].user = user} |-> store[i]]

Returned(req, resp) ==
    IF req.op = "list" THEN {r.id : r \in resp.body}
    ELSE IF req.op = "session_list"
    THEN {resp.body.page_obj[k] : k \in DOMAIN resp.body.page_obj}
    ELSE IF req.op \in {"retrieve", "update", "destroy", "reanalyze",
                        "session_detail", "session_update", "session_delete"}
            /\ resp.code \in {200, 204, 302}
    THEN {req.pk}
    ELSE {}

DetailOps ==
    {"retrieve", "update", "destroy", "reanalyze",
     "session_detail", "session_update", "session_delete"}

(* The allow-list and the action names as the specification gives them. *)
StatedAllowList ==
    {"status", "pacing_analysis", "filler_count", "confidence_score"}

StatedActions == {"delete", "archive", "mark_analyzed"}

----------------------------------------------------------------------------
(* C1: owner isolation.  Whatever request a user sends (list, retrieve,    *)
(* update, delete, analytics, bulk_update, bulk action, reanalyze, with    *)
(* any identifiers), every session of another user stays in the store      *)
(* unchanged, every session the response shows belongs to the caller, and  *)
(* both analytics results are what they would be if the store held the     *)
(* caller's sessions only.                                                 *)
OwnerIsolation ==
    [][Handled =>
        /\ \A i \in DOMAIN sessions :
                sessions[i].user # request'.user =>
                    i \in DOMAIN sessions' /\ sessions'[i] = sessions[i]
        /\ Returned(request', response') \subseteq Owned(request'.user)
        /\ request'.op = "analytics" =>
                response' = analytics(OwnStore(sessions, request'.user),
                                      request'.user, now).response
        /\ request'.op = "session_analytics" =>
                response' = session_analytics_view(
                                OwnStore(sessions, request'.user),
                                request'.user, now).response
      ]_vars

(* A bulk request that names a session of another user next to one of the  *)
(* caller's has gone through.                                              *)
OwnerIsolationWitness ==
    /\ request.op = "bulk_update"
    /\ response.code = 200
    /\ \E i \in request.session_ids :
            i \in DOMAIN sessions /\ sessions[i].user # request.user

(* C2: a retrieve, update, delete or reanalyze request (REST or page) for  *)
(* an existing session of another user is answered as one for an           *)
(* identifier that does not exist: 404 with the bare error body, never 403 *)
(* and never the record, and the store is left alone.                      *)
NotFoundForForeignSession ==
    [][Handled /\ request'.op \in DetailOps
               /\ request'.pk \notin Owned(request'.user) =>
        /\ response'.code = 404
        /\ response'.body = "error"
        /\ sessions' = sessions
      ]_vars

NotFoundForForeignSessionWitness ==
    /\ request.op \in DetailOps
    /\ request.pk \in DOMAIN sessions
    /\ sessions[request.pk].user # request.user
    /\ response.code = 404

(* C3: every stored session has duration > 0, filler_count >= 0 and a      *)
(* confidence_score that is unset or within [0, 1], and a bulk_update or   *)
(* update carrying a value outside these ranges is not answered with       *)
(* success.                                                                *)
OutOfRange(p) ==
    \/ "duration" \in p.keys /\ p.data.duration <= 0
    \/ "filler_count" \in p.keys /\ p.data.filler_count < 0
    \/ "confidence_score" \in p.keys /\ p.data.confidence_score # NULL
            /\ (p.data.confidence_score[1] < 0
                \/ p.data.confidence_score[1] > 100)

StoredValuesInRange ==
    /\ \A i \in DOMAIN sessions :
            /\ sessions[i].duration > 0
            /\ sessions[i].filler_count >= 0
            /\ sessions[i].confidence_score = NULL
                \/ (sessions[i].confidence_score[1] >= 0
                    /\ sessions[i].confidence_score[1] <= 100)
    /\ request.op = "update" /\ OutOfRange(request.data) =>
            response.code # 200
    /\ request.op = "bulk_update" /\ OutOfRange(request.updates) =>
            response.code # 200

(* C4: the status of every stored session is pending, analyzed or          *)
(* archived.                                                               *)
StoredStatusIsAChoice ==
    \A i \in DOMAIN sessions :
        sessions[i].status \in {"pending", "analyzed", "archived"}

(* C5: a bulk_update whose updates map has a key outside the allow-list    *)
(* leaves every session as it was, whatever allowed keys the map also has. *)
BulkUpdateAllOrNothing ==
    [][Handled /\ request'.op = "bulk_update"
               /\ request'.updates.keys \ StatedAllowList # {} =>
        sessions' = sessions
      ]_vars

(* A map with an allowed and a disallowed key, sent for a session of the   *)
(* caller, was refused.                                                    *)
BulkUpdateAllOrNothingWitness ==
    /\ request.op = "bulk_update"
    /\ request.updates.keys \cap StatedAllowList # {}
    /\ request.updates.keys \ StatedAllowList # {}
    /\ request.session_ids \cap Owned(request.user) # {}
    /\ response.code = 400

AfterBulkAction(action, mine) ==
    IF action = "delete"
    THEN [i \in DOMAIN sessions \ mine |-> sessions[i]]
    ELSE [i \in DOMAIN sessions |->
            IF i \in mine
            THEN [sessions[i] EXCEPT !.status =
                    IF action = "archive" THEN "archived" ELSE "analyzed"]
            ELSE sessions[i]]

(* C7, as stated: a bulk action with a non-empty session_ids and an action *)
(* name outside {delete, archive, mark_analyzed} is answered 400 and       *)
(* changes nothing; delete removes exactly the caller's listed sessions,   *)
(* archive and mark_analyzed set exactly their status, and nothing else    *)
(* changes.                                                                *)
BulkActionAsStated ==
    [][Handled /\ request'.op = "bulk_action" /\ request'.body # NULL
               /\ request'.body[1].session_ids # {} =>
        LET action == request'.body[1].action
            mine == request'.body[1].session_ids \cap Owned(request'.user)
        IN  IF action \notin StatedActions
            THEN response'.code = 400 /\ sessions' = sessions
            ELSE sessions' = AfterBulkAction(action, mine)
      ]_vars

(* C7, amended: such a request with an action name outside the set changes *)
(* nothing, and is answered 400 when the name is empty or a listed id is a *)
(* session of the caller, 404 otherwise; the effects of delete, archive    *)
(* and mark_analyzed are as stated.                                        *)
BulkActionEffect ==
    [][Handled /\ request'.op = "bulk_action" /\ request'.body # NULL
               /\ request'.body[1].session_ids # {} =>
        LET action == request'.body[1].action
            mine == request'.body[1].session_ids \cap Owned(request'.user)
        IN  IF action \notin StatedActions
            THEN /\ sessions' = sessions
                 /\ response'.code =
                        IF action = "" \/ mine # {} THEN 400 ELSE 404
            ELSE sessions' = AfterBulkAction(action, mine)
      ]_vars

(* An unknown action, sent for sessions none of which is the caller's, was *)
(* answered 404.                                                           *)
BulkActionEffectWitness ==
    /\ request.op = "bulk_action"
    /\ request.body # NULL
    /\ request.body[1].action \notin StatedActions \cup {""}
    /\ request.body[1].session_ids # {}
    /\ request.body[1].session_ids \cap Owned(request.user) = {}
    /\ response.code = 404

(* C8: reanalyze on a session of the caller that has no audio file is      *)
(* answered 400 and leaves that session and every other session as they    *)
(* were.                                                                   *)
ReanalyzeNeedsAudio ==
    [][Handled /\ request'.op = "reanalyze"
               /\ request'.pk \in Owned(request'.user)
               /\ ~sessions[request'.pk].audio_file =>
        /\ response'.code = 400
        /\ sessions' = sessions
      ]_vars

ReanalyzeNeedsAudioWitness ==
    /\ request.op = "reanalyze"
    /\ request.pk \in Owned(request.user)
    /\ ~sessions[request.pk].audio_file
    /\ response.code = 400

----------------------------------------------------------------------------
(* The analytics engine on its own: the store is any store of at most      *)
(* MaxSessions sessions out of two families, and the request is one of the *)
(* two analytics requests.  The first family varies what the filler rate   *)
(* reads (status, filler_count, duration), the second what the improvement *)
(* metric reads (filler_count and a date on either side of each end of the *)
(* two 30-day windows).                                                    *)

AnalyticsNow == timedelta(90)

StoredRow(user, status, filler_count, duration, date) ==
    [NewSession(user, duration, FALSE, <<>>, date) EXCEPT
        !.status = status, !.filler_count = filler_count]

RateRows ==
    {StoredRow(user, status, filler_count, duration, AnalyticsNow) :
        user \in Users, status \in STATUS_CHOICES,
        filler_count \in {3, 6, 100}, duration \in {60, 120}}

WindowRows ==
    {StoredRow(user, "analyzed", filler_count, 60, date) :
        user \in Users, filler_count \in {0, 2, 3},
        date \in {AnalyticsNow,
                  AnalyticsNow - timedelta(30),
                  AnalyticsNow - timedelta(30) - 1,
                  AnalyticsNow - timedelta(60),
                  AnalyticsNow - timedelta(60) - 1}}

StoresOf(rows) == UNION {[1..k -> rows] : k \in 0..MaxSessions}

InitAnalytics ==
    /\ now = AnalyticsNow
    /\ sessions \in StoresOf(RateRows) \cup StoresOf(WindowRows)
    /\ nextId = Cardinality(DOMAIN sessions) + 1
    /\ request = NoRequest
    /\ response = Resp("none", "none", 0, 0, "none")
    /\ inflight = Idle

NextAnalytics == Analytics \/ PageAnalytics

SpecAnalytics == InitAnalytics /\ [][NextAnalytics]_vars

(* Totals as the claims state them, over the identifiers in order. *)
RECURSIVE Total(_, _, _)
Total(field, ids, n) ==
    IF n = 0 THEN 0
    ELSE (IF n \in ids THEN sessions[n][field] ELSE 0)
            + Total(field, ids, n - 1)

TotalOf(field, ids) == Total(field, ids, MaxSessions + 1)

Abs(x) == IF x < 0 THEN -x ELSE x

(* hundredths is the multiple of 0.01 nearest to num / den, for den > 0 *)
NearestHundredth(hundredths, num, den) ==
    2 * Abs(hundredths * den - 100 * num) <= den

AnalyzedOf(user) == {i \in Owned(user) : sessions[i].status = "analyzed"}

(* C9, as stated: total_filler_words is the sum of filler_count over the   *)
(* caller's analyzed sessions, and average_filler_rate equals that sum     *)
(* divided by the sum of their durations, times 60, or 0 when that sum of  *)
(* durations is 0.                                                         *)
FillerRateAsStated ==
    request.op = "analytics" /\ Owned(request.user) # {} =>
        LET analyzed == AnalyzedOf(request.user)
            fillers == TotalOf("filler_count", analyzed)
            seconds == TotalOf("duration", analyzed)
        IN  /\ response.body.total_filler_words = fillers
            /\ IF seconds = 0
               THEN response.body.average_filler_rate = 0
               ELSE response.body.average_filler_rate * seconds
                        = 100 * 60 * fillers

(* C9, amended: the same, with average_filler_rate that quotient rounded   *)
(* to two decimals.                                                        *)
FillerRate ==
    request.op = "analytics" /\ Owned(request.user) # {} =>
        LET analyzed == AnalyzedOf(request.user)
            fillers == TotalOf("filler_count", analyzed)
            seconds == TotalOf("duration", analyzed)
        IN  /\ response.body.total_filler_words = fillers
            /\ IF seconds = 0
               THEN response.body.average_filler_rate = 0
               ELSE NearestHundredth(response.body.average_filler_rate,
                                     60 * fillers, seconds)

(* The caller has an analyzed session and one that is not, both with       *)
(* fillers, and a positive rate is reported.                               *)
FillerRateWitness ==
    /\ request.op = "analytics"
    /\ AnalyzedOf(request.user) # {}
    /\ \E i \in Owned(request.user) \ AnalyzedOf(request.user) :
            sessions[i].filler_count > 0
    /\ response.body.average_filler_rate > 0

(* The example of the specification: durations 60 and 120, fillers 6 and   *)
(* 3, both analyzed, give 3.00.                                            *)
FillerRateExample ==
    /\ request.op = "analytics"
    /\ Owned(request.user) = {1, 2}
    /\ AnalyzedOf(request.user) = {1, 2}
    /\ sessions[1].duration = 60 /\ sessions[1].filler_count = 6
    /\ sessions[2].duration = 120 /\ sessions[2].filler_count = 3
    /\ response.body.average_filler_rate = 300

RecentOf(user) ==
    {i \in Owned(user) : sessions[i].date >= now - 30 * TicksPerDay}

PreviousOf(user) ==
    {i \in Owned(user) : /\ sessions[i].date >= now - 60 * TicksPerDay
                         /\ sessions[i].date < now - 30 * TicksPerDay}

ImprovementDue(user) ==
    /\ Cardinality(Owned(user)) > 1
    /\ RecentOf(user) # {}
    /\ PreviousOf(user) # {}
    /\ TotalOf("filler_count", PreviousOf(user)) > 0

ImprovementGiven(body) ==
    /\ "improvement_metrics" \in DOMAIN body
    /\ body.improvement_metrics # NULL

(* C10, as stated: filler_improvement_percent is present exactly when the  *)
(* caller has more than one session, the recent and the preceding 30-day   *)
(* window each hold one and the preceding average filler_count is          *)
(* positive; when present it equals                                        *)
(* ((previous_avg - recent_avg) / previous_avg) * 100.                     *)
ImprovementAsStated ==
    request.op = "analytics" =>
        LET user == request.user
            recent_sum == TotalOf("filler_count", RecentOf(user))
            recent_n == Cardinality(RecentOf(user))
            previous_sum == TotalOf("filler_count", PreviousOf(user))
            previous_n == Cardinality(PreviousOf(user))
        IN  /\ ImprovementGiven(response.body) <=> ImprovementDue(user)
            /\ ImprovementGiven(response.body) =>
                response.body.improvement_metrics[1] * previous_sum * recent_n
                    = 100 * 100 * (previous_sum * recent_n
                                    - recent_sum * previous_n)

(* C10, amended: the same, with the value rounded to two decimals. *)
Improvement ==
    request.op = "analytics" =>
        LET user == request.user
            recent_sum == TotalOf("filler_count", RecentOf(user))
            recent_n == Cardinality(RecentOf(user))
            previous_sum == TotalOf("filler_count", PreviousOf(user))
            previous_n == Cardinality(PreviousOf(user))
        IN  /\ ImprovementGiven(response.body) <=> ImprovementDue(user)
            /\ ImprovementGiven(response.body) =>
                NearestHundredth(response.body.improvement_metrics[1],
                    100 * (previous_sum * recent_n - recent_sum * previous_n),
                    previous_sum * recent_n)

(* The metric is given for a caller with a session at the first instant of *)
(* the recent window and one at the first instant of the preceding one.    *)
ImprovementWitness ==
    /\ request.op = "analytics"
    /\ ImprovementGiven(response.body)
    /\ \E i \in RecentOf(request.user) :
            sessions[i].date = now - 30 * TicksPerDay
    /\ \E i \in PreviousOf(request.user) :
            sessions[i].date = now - 60 * TicksPerDay

(* The fields of the analytics result as the specification lists them. *)
StatedAnalyticsFields ==
    {"total_sessions", "total_duration", "average_duration",
     "total_filler_words", "average_filler_rate", "sessions_by_status",
     "recent_sessions_count", "improvement_metrics"}

ZeroCounts(body) ==
    /\ body.total_sessions = 0
    /\ body.total_duration = 0
    /\ body.average_duration = 0
    /\ body.total_filler_words = 0
    /\ body.average_filler_rate = 0
    /\ body.recent_sessions_count = 0
    /\ DOMAIN body.sessions_by_status = {}

(* C11, as stated: analytics for a caller without sessions succeeds with   *)
(* every count and average 0 and sessions_by_status empty, and the result  *)
(* has the same fields as the result for a caller with a session.          *)
ZeroSessionAnalyticsAsStated ==
    request.op = "analytics" =>
        /\ response.code = 200
        /\ DOMAIN response.body = StatedAnalyticsFields
        /\ Owned(request.user) = {} => ZeroCounts(response.body)

(* C11, amended: the same, except that the result for a caller without     *)
(* sessions has no improvement_metrics field, which the result for a       *)
(* caller with a session always has.                                       *)
ZeroSessionAnalytics ==
    request.op = "analytics" =>
        /\ response.code = 200
        /\ IF Owned(request.user) = {}
           THEN /\ ZeroCounts(response.body)
                /\ DOMAIN response.body =
                        StatedAnalyticsFields \ {"improvement_metrics"}
           ELSE DOMAIN response.body = StatedAnalyticsFields

(* Analytics was asked by a user without sessions while another user has   *)
(* some.                                                                   *)
ZeroSessionAnalyticsWitness ==
    /\ request.op = "analytics"
    /\ Owned(request.user) = {}
    /\ sessions # <<>>
    /\ response.code = 200

RECURSIVE SumOfCounts(_, _)
SumOfCounts(counts, keys) ==
    IF keys = {} THEN 0
    ELSE LET k == CHOOSE x \in keys : TRUE
         IN  counts[k] + SumOfCounts(counts, keys \ {k})

(* C12: sessions_by_status of analytics has a key for a status exactly     *)
(* when the caller has a session with that status, each value is the       *)
(* number of the caller's sessions with that status, and the values add up *)
(* to total_sessions.                                                      *)
SessionsByStatus ==
    request.op = "analytics" =>
        LET counts == response.body.sessions_by_status
            mine == Owned(request.user)
        IN  /\ DOMAIN counts = {sessions[i].status : i \in mine}
            /\ \A st \in DOMAIN counts :
                    counts[st] =
                        Cardinality({i \in mine : sessions[i].status = st})
            /\ SumOfCounts(counts, DOMAIN counts)
                    = response.body.total_sessions
            /\ response.body.total_sessions = Cardinality(mine)

(* The caller has sessions of two statuses and none of the third, and the  *)
(* mapping has the two keys.                                               *)
SessionsByStatusWitness ==
    /\ request.op = "analytics"
    /\ Cardinality({sessions[i].status : i \in Owned(request.user)}) = 2
    /\ Cardinality(DOMAIN response.body.sessions_by_status) = 2

----------------------------------------------------------------------------
(* The page list on its own.  The store is any store of at most            *)
(* MaxSessions sessions that differ in what the filters read (status, day, *)
(* the two texts, owner), or a store with more sessions of one owner than  *)
(* a page holds, two to a date.                                            *)

ListRow(user, status, date, transcription, pacing_analysis) ==
    [NewSession(user, 60, FALSE, transcription, date) EXCEPT
        !.status = status, !.pacing_analysis = pacing_analysis]

ListTexts ==
    {<<(<<"FAST">>), (<<>>)>>, <<(<<>>), (<<"fast">>)>>,
     <<(<<"slow">>), (<<>>)>>}

ListRows ==
    {ListRow("A", status, date, text[1], text[2]) :
        status \in {"pending", "analyzed"},
        date \in {0, TicksPerDay - 1, TicksPerDay},
        text \in ListTexts}
    \cup {ListRow("B", "analyzed", 0, <<"FAST">>, <<>>)}

LongStore(n) ==
    [i \in 1..n |->
        ListRow("A", IF i = 1 THEN "pending" ELSE "analyzed", i \div 2,
                <<"FAST">>, <<>>)]

LongStores == {LongStore(per_page + k) : k \in 1..MaxSessions}

InitList ==
    /\ now = 0
    /\ sessions \in StoresOf(ListRows) \cup LongStores
    /\ nextId = Cardinality(DOMAIN sessions) + 1
    /\ request = NoRequest
    /\ response = Resp("none", "none", 0, 0, "none")
    /\ inflight = Idle

NextList == PageList

SpecList == InitList /\ [][NextList]_vars

(* The caller's sessions that satisfy every filter supplied; an absent     *)
(* filter excludes nothing.                                                *)
Matching(user, f) ==
    {i \in Owned(user) :
        /\ f.status # "" => sessions[i].status = f.status
        /\ f.date_from # NULL =>
                f.date_from[1] <= sessions[i].date \div TicksPerDay
        /\ f.date_to # NULL =>
                sessions[i].date \div TicksPerDay <= f.date_to[1]
        /\ f.search # <<>> =>
                \/ icontains(sessions[i].transcription, f.search)
                \/ icontains(sessions[i].pacing_analysis, f.search)}

PageOf(body) == {body.page_obj[k] : k \in DOMAIN body.page_obj}

DateDescending(page) ==
    \A k, l \in DOMAIN page :
        k < l => sessions[page[k]].date >= sessions[page[l]].date

(* The page number asked for, of a list of n sessions: the first when none *)
(* is given, the last when the one given is out of range.                  *)
PageNumber(page, n) ==
    LET last == IF n = 0 THEN 1 ELSE (n + 9) \div 10
    IN  IF page = NULL THEN 1
        ELSE IF page[1] < 1 \/ page[1] > last THEN last
        ELSE page[1]

(* C13, as stated: for inputs the filter form accepts, the page list shows *)
(* exactly the caller's sessions that satisfy every supplied filter, each  *)
(* once, in descending order of date.                                      *)
PageListAsStated ==
    request.op = "session_list" /\ request.filter.valid =>
        /\ PageOf(response.body) = Matching(request.user, request.filter)
        /\ Len(response.body.page_obj) = Cardinality(PageOf(response.body))
        /\ DateDescending(response.body.page_obj)

(* C13, amended: the page list shows one page of at most 10 of the         *)
(* sessions selected, in descending order of date, each once: the sessions *)
(* selected are the caller's sessions that satisfy every supplied filter   *)
(* when the filter form accepts the inputs, and all the caller's sessions  *)
(* when it does not; the page shown is the one asked for (the first when   *)
(* none is, the last when there is none of that number), and the selected  *)
(* sessions not shown are 10 per preceding page, none earlier than a       *)
(* session shown, and the rest, none later than a session shown.           *)
PageListShown ==
    request.op = "session_list" =>
        LET f == request.filter
            page == response.body.page_obj
            shown == PageOf(response.body)
            selected == IF f.valid THEN Matching(request.user, f)
                        ELSE Owned(request.user)
            number == PageNumber(f.page, Cardinality(selected))
            rest == selected \ shown
        IN  /\ shown \subseteq selected
            /\ Len(page) = Cardinality(shown)
            /\ DateDescending(page)
            /\ Len(page) =
                    Min(10, Cardinality(selected) - 10 * (number - 1))
            /\ \E before \in SUBSET rest :
                    /\ Cardinality(before) = 10 * (number - 1)
                    /\ \A e \in before, i \in shown :
                            sessions[e].date >= sessions[i].date
                    /\ \A l \in rest \ before, i \in shown :
                            sessions[l].date <= sessions[i].date

(* The second page of more than 10 sessions that pass a status filter was  *)
(* shown, and the filter has kept a session of the caller out.             *)
PageListShownWitness ==
    /\ request.op = "session_list"
    /\ request.filter.valid
    /\ request.filter.status # ""
    /\ request.filter.page = Some(2)
    /\ Cardinality(Matching(request.user, request.filter)) > 10
    /\ Owned(request.user) \ Matching(request.user, request.filter) # {}
    /\ Len(response.body.page_obj) > 0

CreateOps == {"create", "session_create"}

(* C14: a session created with an audio file, by the REST create or by the *)
(* page form, is stored with filler_count 5, the canned pacing_analysis,   *)
(* confidence_score 0.85 and status analyzed; one created without an audio *)
(* file with status pending, filler_count 0 and no confidence_score; its   *)
(* owner is the caller either way, and no other session changes.           *)
CreationAnalysis ==
    [][Handled /\ request'.op \in CreateOps
               /\ response'.code \in {201, 302} =>
        /\ DOMAIN sessions' = DOMAIN sessions \cup {nextId}
        /\ nextId \notin DOMAIN sessions
        /\ \A i \in DOMAIN sessions : sessions'[i] = sessions[i]
        /\ LET made == sessions'[nextId]
           IN  /\ made.user = request'.user
               /\ made.duration = request'.duration
               /\ IF request'.audio_file
                  THEN /\ made.filler_count = 5
                       /\ made.pacing_analysis = <<"simulated">>
                       /\ made.confidence_score = <<85>>
                       /\ made.status = "analyzed"
                  ELSE /\ made.filler_count = 0
                       /\ made.confidence_score = <<>>
                       /\ made.status = "pending"
      ]_vars

(* A session with an audio file has been created through the REST API.     *)
CreationAnalysisWitness ==
    /\ request.op = "create"
    /\ request.audio_file
    /\ response.code = 201
    /\ response.target \in DOMAIN sessions
    /\ sessions[response.target].status = "analyzed"

MutatingOps ==
    {"update", "session_update", "bulk_update", "bulk_action", "reanalyze"}

(* C15: a session that an update, a bulk_update, a bulk archive or         *)
(* mark_analyzed, or a reanalyze has changed has the time of the request   *)
(* as its updated_at.                                                      *)
UpdatedAtBumped ==
    [][Handled /\ request'.op \in MutatingOps =>
        \A i \in DOMAIN sessions \cap DOMAIN sessions' :
            sessions'[i] # sessions[i] => sessions'[i].updated_at = now
      ]_vars

----------------------------------------------------------------------------
(* The mutating requests on a session at any point of its life.  The first *)
(* session of the store is a session of user A in any status, with or      *)
(* without an audio file and analysis results, and its transcription names *)
(* the status it has before the request; the other sessions are plain.     *)
(* The request comes some time after the sessions were created.            *)

LifecycleRow(user, status, audio_file, confidence_score, filler_count) ==
    [NewSession(user, 60, audio_file, <<status>>, 0) EXCEPT
        !.status = status,
        !.confidence_score = confidence_score,
        !.filler_count = filler_count]

LifecycleRows ==
    {LifecycleRow("A", status, analysis[1], analysis[2], analysis[3]) :
        status \in STATUS_CHOICES,
        analysis \in {<<FALSE, NULL, 0>>, <<TRUE, NULL, 1>>,
                      <<TRUE, Some(0), 5>>, <<TRUE, Some(98), 5>>}}

PlainRows(k) ==
    [i \in 1..k |->
        LifecycleRow(IF i % 2 = 1 THEN "B" ELSE "A", "pending", TRUE, NULL, 0)]

LifecycleStores ==
    {<<row>> \o PlainRows(k) : row \in LifecycleRows, k \in 0..(MaxSessions - 1)}

InitLifecycle ==
    /\ now = MaxNow
    /\ sessions \in LifecycleStores
    /\ nextId = Cardinality(DOMAIN sessions) + 1
    /\ request = NoRequest
    /\ response = Resp("none", "none", 0, 0, "none")
    /\ inflight = Idle

NextLifecycle ==
    \/ Update \/ PageUpdate \/ BulkUpdate \/ PageBulkAction \/ Reanalyze

SpecLifecycle == InitLifecycle /\ [][NextLifecycle]_vars

Columns ==
    {"user", "date", "duration", "filler_count", "pacing_analysis", "status",
     "audio_file", "transcription", "confidence_score", "created_at",
     "updated_at"}

(* The sessions that are there before and after the step, and differ in    *)
(* nothing but the columns given.                                          *)
OnlyWritten(columns) ==
    /\ DOMAIN sessions' = DOMAIN sessions
    /\ \A i \in DOMAIN sessions, c \in Columns \ columns :
            sessions'[i][c] = sessions[i][c]

ReanalyzeConfidence ==
    [][Handled /\ request'.op = "reanalyze" /\ response'.code = 200 =>
        LET stored == sessions[request'.pk].confidence_score
            base == IF stored = <<>> THEN 80 ELSE stored[1]
            after == sessions'[request'.pk].confidence_score
        IN  /\ after = <<Min(100, Max(0, base + 5))>>
            /\ stored = <<0>> => after = <<5>>
            /\ stored # <<>> => after[1] >= stored[1]
            /\ after[1] <= 100
      ]_vars

----------------------------------------------------------------------------
(* Reanalysis again and again.  The store holds at most one session, as    *)
(* its creation left it; requests are reanalyze requests, one after the    *)
(* other, each served by a process with its own hash salt, until           *)
(* MaxReanalyses of them have succeeded.                                   *)

Notes(text) == Cardinality({k \in DOMAIN text : text[k] = "reanalyzed"})

(* The response has gone out: the next request can come. *)
Settle ==
    /\ request # NoRequest
    /\ \A i \in DOMAIN sessions :
            Notes(sessions[i].pacing_analysis) < MaxReanalyses
    /\ request' = NoRequest
    /\ response' = Resp("none", "none", 0, 0, "none")
    /\ UNCHANGED <<sessions, nextId, now, inflight>>

InitReanalysis ==
    /\ now = 0
    /\ sessions \in CreatedStores(1, 0)
    /\ nextId = Cardinality(DOMAIN sessions) + 1
    /\ request = NoRequest
    /\ response = Resp("none", "none", 0, 0, "none")
    /\ inflight = Idle

NextReanalysis == Reanalyze \/ Settle

SpecReanalysis == InitReanalysis /\ [][NextReanalysis]_vars

(* C18: a reanalyze that succeeds sets filler_count to                     *)
(* max(0, filler_count + d) with d in {-2,..,2} a function of the session  *)
(* id alone, so the second reanalysis of a session created with 5 fillers  *)
(* applies the d of the first; it sets status to analyzed whatever the     *)
(* status was, and puts a note before the pacing_analysis it found.        *)
ReanalyzeOffset ==
    [][Handled /\ request'.op = "reanalyze" /\ response'.code = 200 =>
        LET before == sessions[request'.pk]
            after == sessions'[request'.pk]
            added == Len(after.pacing_analysis) - Len(before.pacing_analysis)
        IN  /\ \E d \in -2..2 :
                    /\ after.filler_count = Max(0, before.filler_count + d)
                    /\ Notes(before.pacing_analysis) = 1 =>
                            d = before.filler_count - 5
            /\ after.status = "analyzed"
            /\ added > 0
            /\ SubSeq(after.pacing_analysis, added + 1,
                      Len(after.pacing_analysis)) = before.pacing_analysis
      ]_vars

(* C19: whatever the status of a session is, a request of its owner that   *)
(* sets status to pending, analyzed or archived, a partial update or a     *)
(* bulk_update with status as its only key, succeeds and leaves the        *)
(* session in that status: every status can follow every status, archived  *)
(* included.                                                               *)
AnyStatusFollows ==
    [][Handled /\ request'.op \in {"update", "bulk_update"} =>
        LET payload == IF request'.op = "update" THEN request'.data
                       ELSE request'.updates
            mine == IF request'.op = "update"
                    THEN {request'.pk} \cap Owned(request'.user)
                    ELSE request'.session_ids \cap Owned(request'.user)
        IN  /\ payload.keys = {"status"}
            /\ payload.data.status \in {"pending", "analyzed", "archived"}
            /\ request'.op = "update" => request'.partial
            /\ mine # {}
            => /\ response'.code = 200
               /\ \A i \in mine : sessions'[i].status = payload.data.status
      ]_vars

(* A session that was archived (its transcription says so) has been set to *)
(* pending by a bulk_update of its owner.                                  *)
AnyStatusFollowsWitness ==
    /\ request.op = "bulk_update"
    /\ request.updates.keys = {"status"}
    /\ request.updates.data.status = "pending"
    /\ response.code = 200
    /\ \E i \in request.session_ids \cap Owned(request.user) :
            /\ sessions[i].transcription = <<"archived">>
            /\ sessions[i].status = "pending"

----------------------------------------------------------------------------
(* Two bulk_update requests side by side.  Each worker takes one request   *)
(* and runs the statements of bulk_update one at a time: the exists()      *)
(* query with the check of the keys, then the UPDATE, which the storage    *)
(* engine applies row by row, each row in one piece, then the response.    *)
(* The store holds MaxSessions sessions of user A and one of user B.       *)

ConcurrentStore ==
    [i \in 1..(MaxSessions + 1) |->
        LifecycleRow(IF i <= MaxSessions THEN "A" ELSE "B",
                     "pending", TRUE, NULL, 0)]

ConcurrentIdSets == (SUBSET (1..MaxSessions)) \ {{}}

ConcurrentUpdates ==
    {[keys |-> {"status", "filler_count"},
      data |-> [Blank EXCEPT !.status = "archived", !.filler_count = 3]],
     [keys |-> {"status"},
      data |-> [Blank EXCEPT !.status = "analyzed"]],
     [keys |-> {"filler_count", "pacing_analysis"},
      data |-> [Blank EXCEPT !.filler_count = 7,
                             !.pacing_analysis = <<"fast">>]],
     [keys |-> {"status", "user"},
      data |-> [Blank EXCEPT !.status = "archived", !.user = "B"]]}

Finish(w, code, body) ==
    [inflight EXCEPT
        ![w].pc = "done",
        ![w].response = Resp("bulk_update", inflight[w].user,
                             inflight[w].session_ids, code, body)]

(* The rows the queryset of worker w selects in the store as it is now. *)
selected_now(w) ==
    filter_id_in(sessions, get_queryset(sessions, inflight[w].user),
                 inflight[w].session_ids)

(* bulk_update, from the request to the test of its two parts *)
BulkUpdateReceive ==
    \E w \in Workers, user \in Users, session_ids \in ConcurrentIdSets,
       updates \in ConcurrentUpdates :
        /\ inflight[w].pc = "idle"
        /\ inflight' =
                IF session_ids = {} \/ updates.keys = {}
                THEN [inflight EXCEPT
                        ![w] = [Waiting EXCEPT
                            !.pc = "done", !.op = "bulk_update",
                            !.user = user, !.session_ids = session_ids,
                            !.updates = updates,
                            !.response = Resp("bulk_update", user,
                                session_ids, 400,
                                "Both session_ids and updates are required")]]
                ELSE [inflight EXCEPT
                        ![w] = [Waiting EXCEPT
                            !.pc = "exists", !.op = "bulk_update",
                            !.user = user, !.session_ids = session_ids,
                            !.updates = updates]]
        /\ UNCHANGED <<sessions, nextId, now, request, response>>

(* bulk_update: sessions.exists(), then the check of the keys *)
BulkUpdateExists ==
    \E w \in Workers :
        /\ inflight[w].pc = "exists"
        /\ inflight' =
                IF selected_now(w) = {}
                THEN Finish(w, 404, "No valid sessions found")
                ELSE IF inflight[w].updates.keys \ allowed_fields # {}
                THEN Finish(w, 400, "Invalid fields for bulk update")
                ELSE [inflight EXCEPT ![w].pc = "update"]
        /\ UNCHANGED <<sessions, nextId, now, request, response>>

(* bulk_update: sessions.update, one row of the UPDATE statement *)
BulkUpdateRow ==
    \E w \in Workers :
        /\ inflight[w].pc = "update"
        /\ \E i \in selected_now(w) \ inflight[w].written :
                /\ sessions' = queryset_update(sessions, {i},
                                               inflight[w].updates)
                /\ inflight' = [inflight EXCEPT
                                    ![w].written = inflight[w].written \cup {i}]
        /\ UNCHANGED <<nextId, now, request, response>>

(* bulk_update: the UPDATE statement is through, the response goes out *)
BulkUpdateRespond ==
    \E w \in Workers :
        /\ inflight[w].pc = "update"
        /\ selected_now(w) \subseteq inflight[w].written
        /\ inflight' = Finish(w, 200,
                [success |-> TRUE,
                 updated_count |-> Cardinality(inflight[w].written)])
        /\ UNCHANGED <<sessions, nextId, now, request, response>>

InitConcurrent ==
    /\ now = 0
    /\ sessions = ConcurrentStore
    /\ nextId = Cardinality(DOMAIN sessions) + 1
    /\ request = NoRequest
    /\ response = Resp("none", "none", 0, 0, "none")
    /\ inflight = Idle

NextConcurrent ==
    \/ BulkUpdateReceive
    \/ BulkUpdateExists
    \/ BulkUpdateRow
    \/ BulkUpdateRespond

SpecConcurrent == InitConcurrent /\ [][NextConcurrent]_vars

(* The requests that have gone through and write column c of session i.    *)
WritersOf(flights, store, i, c) ==
    {w \in Workers :
        /\ flights[w].pc = "done"
        /\ flights[w].response.code = 200
        /\ i \in flights[w].session_ids
        /\ store[i].user = flights[w].user
        /\ c \in flights[w].updates.keys}

(* Both requests are answered, and every column of every session holds the *)
(* value one of the requests that write it has given, or what it held at   *)
(* the start when none writes it.                                          *)
OneWriterEach(flights, store) ==
    (\A w \in Workers : flights[w].pc = "done") =>
        /\ DOMAIN store = DOMAIN ConcurrentStore
        /\ \A i \in DOMAIN store, c \in Columns :
                IF WritersOf(flights, store, i, c) = {}
                THEN store[i][c] = ConcurrentStore[i][c]
                ELSE \E w \in WritersOf(flights, store, i, c) :
                        store[i][c] = flights[w].updates.data[c]

(* C20: when two bulk_update requests run side by side, every change of    *)
(* the store is the write of one request to one session, all the keys of   *)
(* that request at once and nothing else; and when both are answered each  *)
(* column of each session holds a value one of its writers gave, or its    *)
(* first value when neither request writes it.                             *)
LastWriterWins ==
    [][/\ sessions' # sessions =>
            \E w \in Workers, i \in DOMAIN sessions :
                /\ i \in inflight[w].session_ids
                /\ sessions[i].user = inflight[w].user
                /\ DOMAIN sessions' = DOMAIN sessions
                /\ \A j \in DOMAIN sessions \ {i} : sessions'[j] = sessions[j]
                /\ \A c \in Columns :
                        sessions'[i][c] =
                            IF c \in inflight[w].updates.keys
                            THEN inflight[w].updates.data[c]
                            ELSE sessions[i][c]
       /\ OneWriterEach(inflight', sessions')
      ]_vars

(* Both requests went through on a session both name, each with a status   *)
(* of its own, and the session has the status the first worker gave.       *)
LastWriterWinsWitness ==
    /\ \A w \in Workers :
            /\ inflight[w].pc = "done"
            /\ inflight[w].response.code = 200
            /\ "status" \in inflight[w].updates.keys
    /\ inflight[1].updates.data.status # inflight[2].updates.data.status
    /\ \E i \in inflight[1].session_ids \cap inflight[2].session_ids :
            /\ sessions[i].status = inflight[1].updates.data.status
            /\ sessions[i].filler_count = inflight[2].updates.data.filler_count
            /\ "filler_count" \in inflight[2].updates.keys
            /\ "filler_count" \notin inflight[1].updates.keys

----------------------------------------------------------------------------
(* A reanalyze side by side with another request.  reanalyze runs in two   *)
(* steps: get_object loads the session into the worker's memory, and after *)
(* the new values are computed on that copy, save() writes every column of *)
(* it; save() updates the row with the key of the copy and inserts the row *)
(* when the update finds none.  The other worker runs bulk_update          *)
(* statement by statement, or a bulk action of the pages or a destroy,     *)
(* each of these taken in one piece.                                       *)

InterleavedActions == {"delete", "archive", "mark_analyzed"}

(* The copy of the session a worker holds, as a store of one row. *)
in_memory(w) ==
    [i \in inflight[w].session_ids |-> inflight[w].session]

(* reanalyze: self.get_object() and the test of the audio file *)
ReanalyzeLoad ==
    \E w \in Workers, user \in Users, pk \in Ids, h \in HashIndexes :
        LET found == get_object(sessions, user, pk)
            started == [Waiting EXCEPT !.op = "reanalyze", !.user = user,
                                       !.session_ids = {pk}]
        IN  /\ inflight[w].pc = "idle"
            /\ inflight' =
                 IF found # 200 \/ ~sessions[pk].audio_file
                 THEN [inflight EXCEPT
                        ![w] = [started EXCEPT
                            !.pc = "done",
                            !.response =
                                reanalyze(sessions, user, pk, h, now).response]]
                 ELSE [inflight EXCEPT
                        ![w] = [pc |-> "loaded", op |-> "reanalyze",
                                user |-> user, session_ids |-> {pk},
                                updates |-> started.updates,
                                written |-> {},
                                response |-> started.response,
                                h |-> h, session |-> sessions[pk]]]
            /\ UNCHANGED <<sessions, nextId, now, request, response>>

(* reanalyze: the new values on the copy, session.save(), the response *)
ReanalyzeSave ==
    \E w \in Workers :
        /\ inflight[w].pc = "loaded"
        /\ \E pk \in inflight[w].session_ids :
            LET out == reanalyze(in_memory(w), inflight[w].user, pk,
                                 inflight[w].h, now)
            IN  /\ sessions' = save(sessions, pk, out.sessions[pk], now)
                /\ inflight' = [inflight EXCEPT
                                    ![w].pc = "done",
                                    ![w].written = {pk},
                                    ![w].response = out.response]
        /\ UNCHANGED <<nextId, now, request, response>>

(* session_bulk_action_view with one of its three actions *)
BulkActionCommit ==
    \E w \in Workers, user \in Users, action \in InterleavedActions,
       session_ids \in ConcurrentIdSets :
        LET out == session_bulk_action_view(sessions, user,
                        Some([action |-> action, session_ids |-> session_ids]))
        IN  /\ inflight[w].pc = "idle"
            /\ sessions' = out.sessions
            /\ inflight' = [inflight EXCEPT
                    ![w] = [Waiting EXCEPT
                        !.pc = "done", !.op = action, !.user = user,
                        !.session_ids = session_ids,
                        !.written = IF out.response.code = 200
                                    THEN get_queryset(sessions, user)
                                            \cap session_ids
                                    ELSE {},
                        !.response = out.response]]
            /\ UNCHANGED <<nextId, now, request, response>>

(* DestroyModelMixin.destroy of the API *)
DestroyCommit ==
    \E w \in Workers, user \in Users, pk \in Ids :
        LET out == destroy(sessions, user, pk)
        IN  /\ inflight[w].pc = "idle"
            /\ sessions' = out.sessions
            /\ inflight' = [inflight EXCEPT
                    ![w] = [Waiting EXCEPT
                        !.pc = "done", !.op = "destroy", !.user = user,
                        !.session_ids = {pk},
                        !.written = IF out.response.code = 204
                                    THEN {pk} ELSE {},
                        !.response = out.response]]
            /\ UNCHANGED <<nextId, now, request, response>>

InitInterleaved ==
    /\ now = MaxNow
    /\ sessions = ConcurrentStore
    /\ nextId = Cardinality(DOMAIN sessions) + 1
    /\ request = NoRequest
    /\ response = Resp("none", "none", 0, 0, "none")
    /\ inflight = Idle

NextInterleaved ==
    \/ ReanalyzeLoad
    \/ ReanalyzeSave
    \/ BulkUpdateReceive
    \/ BulkUpdateExists
    \/ BulkUpdateRow
    \/ BulkUpdateRespond
    \/ BulkActionCommit
    \/ DestroyCommit

SpecInterleaved == InitInterleaved /\ [][NextInterleaved]_vars

(* C21: when reanalyze saves, a change another request has committed to    *)
(* the session since reanalyze loaded it is not lost, the saved row being  *)
(* the one reanalyze gives from the row as it is in the store at the save, *)
(* and a session that was deleted since the load is not in the store after *)
(* the save.                                                               *)
ReanalyzeKeepsCommitted ==
    [][\A w \in Workers :
        (inflight[w].pc = "loaded" /\ inflight'[w].pc = "done") =>
            \A pk \in inflight[w].session_ids :
                IF pk \in DOMAIN sessions
                THEN sessions'[pk] =
                        reanalyze(sessions, inflight[w].user, pk,
                                  inflight[w].h, now).sessions[pk]
                ELSE pk \notin DOMAIN sessions'
      ]_vars

====
